---- MODULE Spec2Model ----
(***************************************************************************)
(* Model of gh-upload-log's core library (src/src/index.js, the current    *)
(* version that starts at line 322): the size classifier, the name         *)
(* normaliser, the gist uploader with its URL validation, the repository   *)
(* uploader with its scratch directory, and the uploadLog orchestrator     *)
(* with its dry run and its gist -> repository fallback.                   *)
(*                                                                         *)
(* Strings whose content the code inspects (paths, captured stdout and     *)
(* stderr, URLs) are sequences of one-character strings.  One uploadLog    *)
(* call is one behaviour: Init draws the options and the input file, and   *)
(* each action is the code between two suspension points (await).          *)
(***************************************************************************)
EXTENDS Integers, Sequences, FiniteSets, TLC

VARIABLES
    opts,        \* the options object given to uploadLog
    inputKind,   \* what opts.filePath names on disk: "missing", "dir", "file"
    inputSize,   \* size in bytes of the input file
    pc,          \* position of the call
    step,        \* index in RepoSteps of the repository command in flight
    uploadType,  \* the resolved upload type (after the overrides)
    strategy,    \* what determineUploadStrategy returned
    cmds,        \* external commands issued so far, in order
    fsOps,       \* file-system mutations performed so far, in order
    workDir,     \* the scratch working directory of uploadAsRepo
    githubUser,  \* trimmed stdout of `gh api user`
    gistCalls,   \* number of uploadAsGist invocations
    repoCalls,   \* options of every uploadAsRepo invocation, in order
    gistError,   \* the error uploadAsGist threw, if any
    gistOut,     \* what `gh gist create` resolved to, kept for direct
                 \* uploadAsGist calls: <<>> or <<[stdout, stderr, exitCode]>>
    warnings,    \* log.warn messages
    failedStep,  \* the first command of uploadAsRepo that resolved although
                 \* the command had failed: <<>> or <<name>>
    cli,         \* the command-line process around the call, if any
    splitCall,   \* a direct splitFileIntoChunks call: <<>> or <<record>>
    runs,        \* concurrent uploadAsRepo invocations with the clock and
                 \* the scratch directories on disk: <<>> or <<record>>
    result,      \* what uploadLog returned: <<>> or <<record>>
    error        \* what uploadLog threw:   <<>> or <<record>>

vars == <<opts, inputKind, inputSize, pc, step, uploadType, strategy, cmds,
          fsOps, workDir, githubUser, gistCalls, repoCalls, gistError,
          gistOut, warnings, failedStep, cli, splitCall, runs, result, error>>

----------------------------------------------------------------------------
(* Bounds of the model *)

\* file sizes are drawn within MaxDelta bytes of each threshold
MaxDelta == 1
\* ... and up to MaxChunks whole chunks
MaxChunks == 2
\* gist ids printed after the URL prefix have at most MaxIdLen characters
MaxIdLen == 2
\* Date.now() takes the values 0..MaxClock while concurrent invocations run
MaxClock == 1
\* paths given to the helpers are made of at most MaxTokens tokens
MaxTokens == 4

----------------------------------------------------------------------------
(* Constants of the program *)

\* mutant: decimal megabytes
GITHUB_GIST_FILE_LIMIT_Decimal == 25 * 1000 * 1000

\* mutant: the limit of the earlier version (100 MB via git)
GITHUB_GIST_FILE_LIMIT_Git == 100 * 1024 * 1024

GITHUB_GIST_FILE_LIMIT == 25 * 1024 * 1024

\* mutant: decimal megabytes
GITHUB_REPO_CHUNK_SIZE_Decimal == 100 * 1000 * 1000

GITHUB_REPO_CHUNK_SIZE == 100 * 1024 * 1024

GistUrlPrefix ==
    <<"h", "t", "t", "p", "s", ":", "/", "/", "g", "i", "s", "t", ".",
      "g", "i", "t", "h", "u", "b", ".", "c", "o", "m", "/">>

RepoUrlPrefix ==
    <<"h", "t", "t", "p", "s", ":", "/", "/", "g", "i", "t", "h", "u", "b",
      ".", "c", "o", "m", "/">>

DryUrlGist ==
    <<"[", "D", "R", "Y", " ", "M", "O", "D", "E", "]", " ", "W", "o", "u",
      "l", "d", " ", "c", "r", "e", "a", "t", "e", " ", "g", "i", "s", "t">>

DryUrlRepo ==
    <<"[", "D", "R", "Y", " ", "M", "O", "D", "E", "]", " ", "W", "o", "u",
      "l", "d", " ", "c", "r", "e", "a", "t", "e", " ", "r", "e", "p", "o",
      "s", "i", "t", "o", "r", "y">>

DotLog == <<".", "l", "o", "g">>

LogDash == <<"l", "o", "g", "-">>

\* characters String.prototype.trim removes
WhiteSpace == {" ", "\n", "\t", "\r"}

\* an absent (undefined) value and a present one
None == <<>>

Some(v) == <<v>>

----------------------------------------------------------------------------
(* String helpers *)

StartsWith(s, p) == Len(s) >= Len(p) /\ SubSeq(s, 1, Len(p)) = p

EndsWith(s, p) == Len(s) >= Len(p) /\ SubSeq(s, Len(s) - Len(p) + 1, Len(s)) = p

RECURSIVE TrimStart(_)
TrimStart(s) ==
    IF s = <<>> THEN s
    ELSE IF Head(s) \in WhiteSpace THEN TrimStart(Tail(s)) ELSE s

RECURSIVE TrimEnd(_)
TrimEnd(s) ==
    IF s = <<>> THEN s
    ELSE IF s[Len(s)] \in WhiteSpace THEN TrimEnd(SubSeq(s, 1, Len(s) - 1))
    ELSE s

Trim(s) == TrimEnd(TrimStart(s))

\* mutant: the pattern lacks its star, one leading slash is removed
StripLeadingSlashes_One(s) ==
    IF s = <<>> THEN s
    ELSE IF Head(s) = "/" THEN Tail(s) ELSE s

\* s.replace(/^\/*/, '')
RECURSIVE StripLeadingSlashes(_)
StripLeadingSlashes(s) ==
    IF s = <<>> THEN s
    ELSE IF Head(s) = "/" THEN StripLeadingSlashes(Tail(s)) ELSE s

\* s.replace(/\//g, '-')
SlashesToDashes(s) == [i \in 1..Len(s) |-> IF s[i] = "/" THEN "-" ELSE s[i]]

normalizeFileName(filePath) == SlashesToDashes(StripLeadingSlashes(filePath))

\* mutant: whatever follows the last dot is cut
BasenameNoSlash_AnyExtension(p, ext) ==
    IF \E i \in 2..Len(p) : p[i] = "."
    THEN SubSeq(p, 1, (CHOOSE i \in 2..Len(p) :
                           p[i] = "." /\ \A j \in (i + 1)..Len(p) : p[j] # ".") - 1)
    ELSE p

\* path.basename(p, ext) for a p that holds no "/" (a normalized name):
\* the whole of p is its last component; ext is cut when p ends with it,
\* and p equal to ext gives the empty string.
BasenameNoSlash(p, ext) ==
    IF Len(ext) > 0 /\ Len(ext) <= Len(p)
    THEN IF p = ext THEN <<>>
         ELSE IF EndsWith(p, ext) THEN SubSeq(p, 1, Len(p) - Len(ext))
         ELSE p
    ELSE p

generateRepoName(filePath) ==
    LogDash \o BasenameNoSlash(normalizeFileName(filePath), DotLog)

generateGistFileName(filePath) == normalizeFileName(filePath)

----------------------------------------------------------------------------
(* Size classifier *)

\* mutant: Math.floor instead of Math.ceil
Ceil_Floor(a, b) == a \div b

\* Math.ceil(a / b) for integers a >= 0, b > 0
Ceil(a, b) == IF a % b = 0 THEN a \div b ELSE (a \div b) + 1

fileExists(kind) == kind = "file"

\* mutant: >= instead of >
NeedsSplit_Inclusive(fileSize) == fileSize >= GITHUB_REPO_CHUNK_SIZE

\* const needsSplit = fileSize > GITHUB_REPO_CHUNK_SIZE
NeedsSplit(fileSize) == fileSize > GITHUB_REPO_CHUNK_SIZE

\* mutant: the existence check is missing, statSync answers for a directory
determineUploadStrategy_NoCheck(kind, fileSize) ==
    IF kind = "missing"
    THEN [threw |-> TRUE, msg |-> "ENOENT"]
    ELSE IF fileSize <= GITHUB_GIST_FILE_LIMIT
    THEN [threw |-> FALSE, type |-> "gist", fileSize |-> fileSize,
          needsSplit |-> FALSE, numChunks |-> None, chunkSize |-> None]
    ELSE [threw |-> FALSE, type |-> "repo", fileSize |-> fileSize,
          needsSplit |-> NeedsSplit(fileSize),
          numChunks |-> Some(Ceil(fileSize, GITHUB_REPO_CHUNK_SIZE)),
          chunkSize |-> Some(GITHUB_REPO_CHUNK_SIZE)]

determineUploadStrategy(kind, fileSize) ==
    IF ~fileExists(kind)
    THEN [threw |-> TRUE, msg |-> "File does not exist"]
    ELSE IF fileSize <= GITHUB_GIST_FILE_LIMIT
    THEN [threw |-> FALSE, type |-> "gist", fileSize |-> fileSize,
          needsSplit |-> FALSE, numChunks |-> None, chunkSize |-> None]
    ELSE [threw |-> FALSE, type |-> "repo", fileSize |-> fileSize,
          needsSplit |-> NeedsSplit(fileSize),
          numChunks |-> Some(Ceil(fileSize, GITHUB_REPO_CHUNK_SIZE)),
          chunkSize |-> Some(GITHUB_REPO_CHUNK_SIZE)]

----------------------------------------------------------------------------
(* Options *)

\* JavaScript truthiness of an optional string
Truthy(optStr) == optStr # None /\ optStr[1] # <<>>

\* mutant: anything but an explicit false is public
IsPublicOf_DefaultPublic(o) == o.isPublic # "false"

\* `isPublic = false` in the destructuring: only undefined takes the default
IsPublicOf(o) == IF o.isPublic = "undefined" THEN FALSE ELSE o.isPublic = "true"

LogFileLabel == <<"L", "o", "g", " ", "f", "i", "l", "e", ":", " ">>

UnknownError == <<"U", "n", "k", "n", "o", "w", "n", " ", "e", "r", "r", "o", "r">>

RECURSIVE StripTrailingSlashes(_)
StripTrailingSlashes(s) ==
    IF s = <<>> THEN s
    ELSE IF s[Len(s)] = "/" THEN StripTrailingSlashes(SubSeq(s, 1, Len(s) - 1))
    ELSE s

RECURSIVE AfterLastSlash(_)
AfterLastSlash(s) ==
    IF \E i \in 1..Len(s) : s[i] = "/" THEN AfterLastSlash(Tail(s)) ELSE s

\* path.basename(p) without a suffix
Basename(p) == AfterLastSlash(StripTrailingSlashes(p))

\* const desc = description || `Log file: ${path.basename(filePath)}`
GistDescription(o) ==
    IF Truthy(o.description) THEN o.description[1]
    ELSE LogFileLabel \o Basename(o.filePath[1])

Command(name, flag, desc) == [cmd |-> name, flag |-> flag, desc |-> desc]

\* the two `gh gist create` template literals
GistCommand(o) ==
    Command("gh gist create", IF IsPublicOf(o) THEN "--public" ELSE "",
            Some(GistDescription(o)))

\* mutant: a fifth git command before the repository is created
RepoSteps_RemoteAdd ==
    <<"git init", "git branch -m main", "git add .", "git commit",
      "gh api user", "git remote add", "gh repo create">>

\* the external commands of uploadAsRepo after the optional split, in order
RepoSteps ==
    <<"git init", "git branch -m main", "git add .", "git commit",
      "gh api user", "gh repo create">>

WhoamiStep == 5

RepoCommand(o, i) ==
    Command(RepoSteps[i],
            IF i = Len(RepoSteps)
            THEN (IF IsPublicOf(o) THEN "--public" ELSE "--private")
            ELSE "",
            None)

SplitCommand == Command("split", "", None)

Err(msg, detail, cmd) == [msg |-> msg, detail |-> detail, cmd |-> cmd]

----------------------------------------------------------------------------
(* Gist URL validation (uploadAsGist, after the command returned) *)

\* mutant: the comparison with the bare prefix is forgotten
IsValidGistUrl_PrefixOnly(gistUrl) ==
    gistUrl # <<>> /\ StartsWith(gistUrl, GistUrlPrefix)

\* the negation of the condition that throws 'Failed to create gist'
IsValidGistUrl(gistUrl) ==
    ~ (\/ gistUrl = <<>>
       \/ ~StartsWith(gistUrl, GistUrlPrefix)
       \/ gistUrl = GistUrlPrefix)

\* result.stderr ? result.stderr.trim() : 'Unknown error'
GistErrorMessage(stderr) == IF stderr # <<>> THEN Trim(stderr) ELSE UnknownError

\* what uploadAsGist does with the object the command resolved to
GistOutcome(o, out) ==
    LET gistUrl == Trim(out.stdout) IN
    IF IsValidGistUrl(gistUrl)
    THEN [ok |-> TRUE,
          value |-> [type |-> "gist", url |-> gistUrl,
                     fileName |-> Some(generateGistFileName(o.filePath[1])),
                     repositoryName |-> None,
                     isPublic |-> IsPublicOf(o), dryMode |-> FALSE,
                     workDir |-> FALSE]]
    ELSE [ok |-> FALSE,
          value |-> Err("Failed to create gist", GistErrorMessage(out.stderr), "")]

----------------------------------------------------------------------------
(* uploadLog: validation, override, dry run, fallback decision *)

\* mutant: the existence check comes first
Validate_FileFirst(o, kind) ==
    IF ~fileExists(kind) THEN Some("File does not exist")
    ELSE IF ~Truthy(o.filePath) THEN Some("filePath is required")
    ELSE None

\* mutant: auto set to false demands one of the only-flags, as the
\* argument parser of the command-line program does
Validate_NoAutoNeedsOverride(o, kind) ==
    IF ~Truthy(o.filePath) THEN Some("filePath is required")
    ELSE IF ~fileExists(kind) THEN Some("File does not exist")
    ELSE IF o.auto = "false" /\ ~o.onlyGist /\ ~o.onlyRepository
    THEN Some("auto needs an override")
    ELSE None

\* the two checks at the top of uploadLog; None when both pass
Validate(o, kind) ==
    IF ~Truthy(o.filePath) THEN Some("filePath is required")
    ELSE IF ~fileExists(kind) THEN Some("File does not exist")
    ELSE None

\* mutant: onlyRepository is not consulted
ResolveUploadType_NoRepoOverride(strategyType, onlyGist, onlyRepository) ==
    IF onlyGist THEN "gist" ELSE strategyType

ResolveUploadType(strategyType, onlyGist, onlyRepository) ==
    IF onlyGist THEN "gist"
    ELSE IF onlyRepository THEN "repo"
    ELSE strategyType

\* mutant: the dry-run test sits in the gist branch only
IsDryRun_NotForced(o) == o.dryMode /\ ~o.onlyRepository

IsDryRun(o) == o.dryMode

\* mutant: the dry-run result names both the gist file and the repository
DryRunResult_BothNames(o, type) ==
    [type |-> type,
     url |-> IF type = "gist" THEN DryUrlGist ELSE DryUrlRepo,
     fileName |-> Some(generateGistFileName(o.filePath[1])),
     repositoryName |-> Some(generateRepoName(o.filePath[1])),
     isPublic |-> IsPublicOf(o),
     dryMode |-> TRUE,
     workDir |-> FALSE]

DryRunResult(o, type) ==
    [type |-> type,
     url |-> IF type = "gist" THEN DryUrlGist ELSE DryUrlRepo,
     fileName |-> IF type = "gist"
                  THEN Some(generateGistFileName(o.filePath[1])) ELSE None,
     repositoryName |-> IF type = "repo"
                        THEN Some(generateRepoName(o.filePath[1])) ELSE None,
     isPublic |-> IsPublicOf(o),
     dryMode |-> TRUE,
     workDir |-> FALSE]

\* mutant: the gist error is always rethrown
FallsBackToRepo_Never(onlyGist) == FALSE

\* mutant: onlyGist is not consulted
FallsBackToRepo_Always(onlyGist) == TRUE

\* the catch block around uploadAsGist: `if (onlyGist) throw gistError`
FallsBackToRepo(onlyGist) == ~onlyGist

----------------------------------------------------------------------------
(* Inputs *)

Paths ==
    { <<"/", "a", "/", "b", ".", "l", "o", "g">>,
      <<"/", "/", "v", "/", "x", ".", "t", "x", "t">>,
      <<"b", ".", "l", "o", "g">> }

\* filePath: absent, the empty string, or a path
FilePaths == {None, Some(<<>>)} \cup {Some(p) : p \in Paths}

Descriptions == {None, Some(<<>>), Some(<<"d">>)}

Options ==
    [filePath : FilePaths,
     isPublic : {"undefined", "false", "true"},
     auto : {"undefined", "false"},
     onlyGist : BOOLEAN,
     onlyRepository : BOOLEAN,
     dryMode : BOOLEAN,
     description : Descriptions]

\* sizes around zero, the gist limit and the whole chunks
Sizes ==
    {s \in UNION { {b - d, b + d} : d \in 0..MaxDelta,
                   b \in {0, 1024, GITHUB_GIST_FILE_LIMIT}
                         \cup {k * GITHUB_REPO_CHUNK_SIZE : k \in 1..MaxChunks} }
       : s >= 0}

RECURSIVE Ids(_)
Ids(n) == IF n = 0 THEN {<<>>} ELSE Ids(n - 1) \cup {<<"a">> \o i : i \in Ids(n - 1)}

\* what `gh gist create` may print on stdout
GistStdouts ==
    { lead \o head \o id \o trail :
        lead \in {<<>>, <<" ">>},
        head \in {<<>>, GistUrlPrefix, Tail(GistUrlPrefix),
                  <<"e", "r", "r">>, <<"x">> \o GistUrlPrefix},
        id \in Ids(MaxIdLen),
        trail \in {<<>>, <<"\n">>} }

Stderrs == {<<>>, <<" ">>, <<"E">>, <<"E", "\n">>}

GistResults == [stdout : GistStdouts, stderr : Stderrs, exitCode : {0, 1}]

\* what `gh api user --jq .login` may print on stdout
UserStdouts == {<<"u", "\n">>, <<>>}

\* how a synchronous file-system prefix of uploadAsRepo may go
FsOutcomes == {"ok", "mkdir throws", "copy throws"}

\* how an awaited command may end: resolved after success, resolved after
\* the command failed (uploadAsGist reads stdout/stderr of such a result),
\* or rejected
CmdOutcomes == {"ok", "failed", "thrown"}

----------------------------------------------------------------------------
(* Initial state: a call of uploadLog(opts) about to start *)

NoWorkDir == [exists |-> FALSE, copy |-> FALSE, parts |-> 0]

\* the library was called directly, there is no command-line process
NoCli == [active |-> FALSE, exit |-> None, out |-> <<>>]

Init ==
    /\ opts \in Options
    /\ inputKind \in IF Truthy(opts.filePath) THEN {"missing", "dir", "file"}
                     ELSE {"missing"}
    /\ inputSize \in IF inputKind = "file" THEN Sizes ELSE {0}
    /\ pc = "call"
    /\ step = 0
    /\ uploadType = None
    /\ strategy = None
    /\ cmds = <<>>
    /\ fsOps = <<>>
    /\ workDir = NoWorkDir
    /\ githubUser = None
    /\ gistCalls = 0
    /\ repoCalls = <<>>
    /\ gistError = None
    /\ gistOut = None
    /\ warnings = <<>>
    /\ failedStep = None
    /\ cli = NoCli
    /\ splitCall = None
    /\ runs = None
    /\ result = None
    /\ error = None

inputs == <<opts, inputKind, inputSize>>

----------------------------------------------------------------------------
(* uploadAsRepo *)

\* uploadLog ends by throwing e (nothing else changes besides what the
\* caller of this operator states)
Throws(e) == pc' = "done" /\ error' = Some(e) /\ result' = None

Returns(r) == pc' = "done" /\ result' = Some(r) /\ error' = None

\* uploadAsRepo(o) from its entry to its first awaited command; f is how
\* mkdirSync and copyFileSync go.
EnterRepo(o, f) ==
    /\ repoCalls' = Append(repoCalls, o)
    /\ githubUser' = githubUser
    /\ failedStep' = failedStep
    /\ IF ~Truthy(o.filePath)
       THEN /\ Throws(Err("filePath is required", <<>>, ""))
            /\ UNCHANGED <<step, cmds, fsOps, workDir>>
       ELSE IF f = "mkdir throws"
       THEN \* catch: the directory does not exist, nothing to remove
            /\ Throws(Err("fs error", <<>>, "mkdir"))
            /\ UNCHANGED <<step, cmds, fsOps, workDir>>
       ELSE IF f = "copy throws"
       THEN \* catch: the directory exists and is removed
            /\ Throws(Err("fs error", <<>>, "copy"))
            /\ fsOps' = fsOps \o <<"mkdir", "rm">>
            /\ workDir' = NoWorkDir
            /\ UNCHANGED <<step, cmds>>
       ELSE /\ fsOps' = fsOps \o <<"mkdir", "copy">>
            /\ workDir' = [exists |-> TRUE, copy |-> TRUE, parts |-> 0]
            /\ UNCHANGED <<result, error>>
            /\ IF inputSize > GITHUB_REPO_CHUNK_SIZE
               THEN /\ pc' = "await split"
                    /\ step' = 0
                    /\ cmds' = Append(cmds, SplitCommand)
               ELSE /\ pc' = "await repo"
                    /\ step' = 1
                    /\ cmds' = Append(cmds, RepoCommand(o, 1))

\* uploadAsRepo never reads the exit status of a command: one that
\* resolved after failing goes unnoticed by the code; the model notes the
\* first such command
NoteFailure(noted, outcome, name) ==
    IF outcome = "failed" /\ noted = None THEN Some(name) ELSE noted

\* mutant: the error is wrapped into a new one
RepoCleanup_Wraps(e, dir) ==
    /\ Throws(Err("Upload failed", <<>>, ""))
    /\ IF dir.exists
       THEN fsOps' = Append(fsOps, "rm") /\ workDir' = NoWorkDir
       ELSE fsOps' = fsOps /\ workDir' = dir

\* the catch block of uploadAsRepo: remove the directory if it exists,
\* rethrow the same error
RepoCleanup(e, dir) ==
    /\ Throws(e)
    /\ IF dir.exists
       THEN fsOps' = Append(fsOps, "rm") /\ workDir' = NoWorkDir
       ELSE fsOps' = fsOps /\ workDir' = dir

\* the result object of uploadAsRepo
RepoResult(o, user) ==
    [type |-> "repo",
     url |-> RepoUrlPrefix \o user \o <<"/">> \o generateRepoName(o.filePath[1]),
     fileName |-> None,
     repositoryName |-> Some(generateRepoName(o.filePath[1])),
     isPublic |-> IsPublicOf(o),
     dryMode |-> FALSE,
     workDir |-> TRUE]

\* `split` came back: splitFileIntoChunks lists the parts, uploadAsRepo
\* unlinks the unchunked copy and issues `git init`
SplitReturns ==
    /\ pc = "await split"
    /\ \E outcome \in CmdOutcomes,
          n \in 0..Ceil(inputSize, GITHUB_REPO_CHUNK_SIZE) :
        /\ failedStep' = NoteFailure(failedStep, outcome, "split")
        /\ outcome = "ok" => n = Ceil(inputSize, GITHUB_REPO_CHUNK_SIZE)
        /\ outcome = "failed" => n < Ceil(inputSize, GITHUB_REPO_CHUNK_SIZE)
        /\ IF outcome = "thrown"
           THEN /\ RepoCleanup(Err("command failed", <<>>, "split"),
                               [workDir EXCEPT !.parts = n])
                /\ UNCHANGED <<step, cmds>>
           ELSE /\ workDir' = [exists |-> TRUE, copy |-> FALSE, parts |-> n]
                /\ fsOps' = Append(fsOps, "unlink")
                /\ pc' = "await repo"
                /\ step' = 1
                /\ cmds' = Append(cmds, RepoCommand(opts, 1))
                /\ UNCHANGED <<result, error>>
    /\ UNCHANGED <<inputs, cli, splitCall, runs, gistOut, uploadType, strategy, githubUser, gistCalls,
                   repoCalls, gistError, warnings>>

\* a git/gh command of uploadAsRepo came back
RepoCmdReturns ==
    /\ pc = "await repo"
    /\ \E outcome \in CmdOutcomes, out \in UserStdouts :
        /\ failedStep' = NoteFailure(failedStep, outcome, RepoSteps[step])
        /\ outcome = "ok" => out = <<"u", "\n">>
        /\ IF outcome = "thrown"
           THEN /\ RepoCleanup(Err("command failed", <<>>, RepoSteps[step]),
                               workDir)
                /\ UNCHANGED <<step, cmds, githubUser>>
           ELSE /\ githubUser' = IF step = WhoamiStep THEN Some(Trim(out))
                                 ELSE githubUser
                /\ UNCHANGED <<fsOps, workDir>>
                /\ IF step < Len(RepoSteps)
                   THEN /\ step' = step + 1
                        /\ cmds' = Append(cmds, RepoCommand(opts, step + 1))
                        /\ UNCHANGED <<pc, result, error>>
                   ELSE /\ Returns(RepoResult(opts, githubUser[1]))
                        /\ UNCHANGED <<step, cmds>>
    /\ UNCHANGED <<inputs, cli, splitCall, runs, gistOut, uploadType, strategy, gistCalls, repoCalls,
                   gistError, warnings>>

----------------------------------------------------------------------------
(* uploadAsGist and uploadLog *)

\* mutant: a failed gist is tried a second time before the fallback
GistFailed_RetriesGist(e) ==
    /\ gistError' = Some(e)
    /\ IF Len(cmds) < 2
       THEN /\ pc' = "await gist"
            /\ cmds' = Append(cmds, GistCommand(opts))
            /\ UNCHANGED <<warnings, step, fsOps, workDir, githubUser,
                           repoCalls, failedStep, result, error>>
       ELSE IF FallsBackToRepo(opts.onlyGist)
       THEN /\ warnings' = Append(warnings, e)
            /\ \E f \in FsOutcomes : EnterRepo(opts, f)
       ELSE /\ Throws(e)
            /\ UNCHANGED <<warnings, step, cmds, fsOps, workDir, githubUser,
                           repoCalls, failedStep>>

\* the catch block of uploadLog around uploadAsGist
GistFailed(e) ==
    /\ gistError' = Some(e)
    /\ IF FallsBackToRepo(opts.onlyGist)
       THEN /\ warnings' = Append(warnings, e)
            /\ \E f \in FsOutcomes : EnterRepo(opts, f)
       ELSE /\ Throws(e)
            /\ UNCHANGED <<warnings, step, cmds, fsOps, workDir, githubUser,
                           repoCalls, failedStep>>

\* uploadAsGist(o) from its entry to the awaited `gh gist create`
EnterGist(o) ==
    /\ gistCalls' = gistCalls + 1
    /\ IF ~Truthy(o.filePath)
       THEN GistFailed(Err("filePath is required", <<>>, ""))
       ELSE /\ pc' = "await gist"
            /\ cmds' = Append(cmds, GistCommand(o))
            /\ UNCHANGED <<step, fsOps, workDir, githubUser, repoCalls,
                           gistError, warnings, failedStep, result, error>>

\* uploadLog from its entry to its first suspension or its return
UploadLogCall ==
    /\ pc = "call"
    /\ UNCHANGED <<inputs, cli, splitCall, runs, gistOut>>
    /\ LET v == Validate(opts, inputKind)
           s == determineUploadStrategy(inputKind, inputSize)
       IN
       IF v # None \/ s.threw
       THEN /\ Throws(Err(IF v # None THEN v[1] ELSE s.msg, <<>>, ""))
            /\ UNCHANGED <<step, uploadType, strategy, cmds, fsOps, workDir,
                           githubUser, gistCalls, repoCalls, gistError,
                           warnings, failedStep>>
       ELSE LET t == ResolveUploadType(s.type, opts.onlyGist,
                                       opts.onlyRepository)
            IN
            /\ strategy' = Some(s)
            /\ uploadType' = Some(t)
            /\ IF IsDryRun(opts)
               THEN /\ Returns(DryRunResult(opts, t))
                    /\ UNCHANGED <<step, cmds, fsOps, workDir, githubUser,
                                   gistCalls, repoCalls, gistError, warnings,
                                   failedStep>>
               ELSE IF t = "gist"
               THEN EnterGist(opts)
               ELSE /\ \E f \in FsOutcomes : EnterRepo(opts, f)
                    /\ UNCHANGED <<gistCalls, gistError, warnings>>

\* `gh gist create` came back: uploadAsGist validates the URL; uploadLog
\* returns its result, rethrows its error or falls back to uploadAsRepo
GistReturns ==
    /\ pc = "await gist"
    /\ UNCHANGED <<inputs, cli, splitCall, runs, gistOut, uploadType, strategy, gistCalls>>
    /\ \E outcome \in {"resolved", "thrown"}, out \in GistResults :
        IF outcome = "thrown"
        THEN GistFailed(Err("command failed", <<>>, "gh gist create"))
        ELSE LET g == GistOutcome(opts, out) IN
             IF g.ok
             THEN /\ Returns(g.value)
                  /\ UNCHANGED <<step, cmds, fsOps, workDir, githubUser,
                                 repoCalls, gistError, warnings, failedStep>>
             ELSE GistFailed(g.value)

----------------------------------------------------------------------------
(* uploadAsGist called directly *)

InitGist ==
    /\ opts \in {o \in Options : /\ ~o.onlyGist /\ ~o.onlyRepository
                                  /\ ~o.dryMode /\ o.auto = "undefined"}
    /\ inputKind \in IF Truthy(opts.filePath) THEN {"missing", "file"}
                     ELSE {"missing"}
    /\ inputSize = 0
    /\ pc = "call gist"
    /\ step = 0
    /\ uploadType = None
    /\ strategy = None
    /\ cmds = <<>>
    /\ fsOps = <<>>
    /\ workDir = NoWorkDir
    /\ githubUser = None
    /\ gistCalls = 0
    /\ repoCalls = <<>>
    /\ gistError = None
    /\ gistOut = None
    /\ warnings = <<>>
    /\ failedStep = None
    /\ cli = NoCli
    /\ splitCall = None
    /\ runs = None
    /\ result = None
    /\ error = None

\* uploadAsGist(opts) from its entry to the awaited `gh gist create`
UploadAsGistCall ==
    /\ pc = "call gist"
    /\ gistCalls' = gistCalls + 1
    /\ IF ~Truthy(opts.filePath)
       THEN /\ Throws(Err("filePath is required", <<>>, ""))
            /\ UNCHANGED cmds
       ELSE /\ pc' = "await gist direct"
            /\ cmds' = Append(cmds, GistCommand(opts))
            /\ UNCHANGED <<result, error>>
    /\ UNCHANGED <<inputs, cli, splitCall, runs, gistOut, step, uploadType, strategy, fsOps,
                   workDir, githubUser, repoCalls, gistError, warnings,
                   failedStep>>

\* `gh gist create` came back to a direct uploadAsGist call
UploadAsGistReturns ==
    /\ pc = "await gist direct"
    /\ \E outcome \in {"resolved", "thrown"}, out \in GistResults :
        IF outcome = "thrown"
        THEN /\ Throws(Err("command failed", <<>>, "gh gist create"))
             /\ UNCHANGED <<gistOut, gistError>>
        ELSE LET g == GistOutcome(opts, out) IN
             /\ gistOut' = Some(out)
             /\ IF g.ok
                THEN Returns(g.value) /\ UNCHANGED gistError
                ELSE Throws(g.value) /\ gistError' = Some(g.value)
    /\ UNCHANGED <<opts, inputKind, inputSize, cli, splitCall, runs, step, uploadType,
                   strategy, cmds, fsOps, workDir, githubUser, gistCalls,
                   repoCalls, warnings, failedStep>>

NextGist ==
    \/ UploadAsGistCall
    \/ UploadAsGistReturns

SpecGist == InitGist /\ [][NextGist]_vars

----------------------------------------------------------------------------
(* The exported helpers called directly *)

PathTokens ==
    { <<"/">>, <<"a">>, <<"-">>, <<".">>, DotLog, <<".", "t", "x", "t">> }

RECURSIVE GenPaths(_)
GenPaths(n) ==
    IF n = 0 THEN {<<>>}
    ELSE GenPaths(n - 1) \cup {t \o p : t \in PathTokens, p \in GenPaths(n - 1)}

\* options that hold a file path and nothing else
OnlyPath(p) ==
    [filePath |-> Some(p), isPublic |-> "undefined", auto |-> "undefined",
     onlyGist |-> FALSE, onlyRepository |-> FALSE, dryMode |-> FALSE,
     description |-> None]

\* a helper is about to be called with opts.filePath[1]
InitHelper(entry, kinds, sizes) ==
    /\ opts \in {OnlyPath(p) : p \in GenPaths(MaxTokens)}
    /\ inputKind \in kinds
    /\ inputSize \in IF inputKind = "file" THEN sizes ELSE {0}
    /\ pc = entry
    /\ step = 0
    /\ uploadType = None
    /\ strategy = None
    /\ cmds = <<>>
    /\ fsOps = <<>>
    /\ workDir = NoWorkDir
    /\ githubUser = None
    /\ gistCalls = 0
    /\ repoCalls = <<>>
    /\ gistError = None
    /\ gistOut = None
    /\ warnings = <<>>
    /\ failedStep = None
    /\ cli = NoCli
    /\ splitCall = None
    /\ runs = None
    /\ result = None
    /\ error = None

\* what a helper call leaves alone: everything but pc, strategy, result, error
helperFrame ==
    <<opts, inputKind, inputSize, step, uploadType, cmds, fsOps, workDir,
      githubUser, gistCalls, repoCalls, gistError, gistOut, warnings,
      failedStep, cli, splitCall, runs>>

InitStrategy == InitHelper("call strategy", {"missing", "dir", "file"}, Sizes)

\* determineUploadStrategy(filePath) called and returned or thrown
DetermineUploadStrategyCall ==
    /\ pc = "call strategy"
    /\ LET s == determineUploadStrategy(inputKind, inputSize) IN
       IF s.threw
       THEN Throws(Err(s.msg, <<>>, "")) /\ UNCHANGED strategy
       ELSE /\ pc' = "done"
            /\ strategy' = Some(s)
            /\ UNCHANGED <<result, error>>
    /\ UNCHANGED helperFrame

NextStrategy == DetermineUploadStrategyCall

SpecStrategy == InitStrategy /\ [][NextStrategy]_vars

----------------------------------------------------------------------------
(* The name helpers called directly *)

InitNames == InitHelper("call names", {"missing"}, {0})

\* a helper fn returned value for the argument arg
NameCall(fn, arg, value) ==
    /\ pc' = "done"
    /\ result' = Some([fn |-> fn, arg |-> arg, value |-> value])
    /\ UNCHANGED <<strategy, error>>
    /\ UNCHANGED helperFrame

NormalizeFileNameCall ==
    /\ pc = "call names"
    /\ NameCall("normalizeFileName", opts.filePath[1],
                normalizeFileName(opts.filePath[1]))

\* normalizeFileName applied to what normalizeFileName returned
NormalizeFileNameAgain ==
    /\ pc = "done"
    /\ result # None
    /\ result[1].fn = "normalizeFileName"
    /\ NameCall("normalizeFileName again", result[1].value,
                normalizeFileName(result[1].value))

GenerateRepoNameCall ==
    /\ pc = "call names"
    /\ NameCall("generateRepoName", opts.filePath[1],
                generateRepoName(opts.filePath[1]))

GenerateGistFileNameCall ==
    /\ pc = "call names"
    /\ NameCall("generateGistFileName", opts.filePath[1],
                generateGistFileName(opts.filePath[1]))

NextNames ==
    \/ NormalizeFileNameCall
    \/ NormalizeFileNameAgain
    \/ GenerateRepoNameCall
    \/ GenerateGistFileNameCall

SpecNames == InitNames /\ [][NextNames]_vars

----------------------------------------------------------------------------
(* splitFileIntoChunks called directly *)

\* chunk sizes in bytes given to splitFileIntoChunks
ChunkSizes == {1024 * 1024, 1024 * 1024 + 1, 2 * 1024 * 1024,
               GITHUB_REPO_CHUNK_SIZE}

\* `split -a 2`: two-digit suffixes, at most 100 output files
MaxSplitFiles == 100

\* const chunkSizeMB = Math.ceil(chunkSize / (1024 * 1024))
ChunkSizeMB(chunkSize) == Ceil(chunkSize, 1024 * 1024)

\* the bytes `split -b ${chunkSizeMB}m` puts into each output file
SplitBytes(chunkSize) == ChunkSizeMB(chunkSize) * 1024 * 1024

\* the numeric suffix `split -d -a 2` gives to its k-th output file
Suffix(k) == <<(k - 1) \div 10, (k - 1) % 10>>

\* the first n output files of `split` on a file of size bytes: the name
\* suffix and the byte range [from, to) of the input each one holds
SplitFiles(size, chunkSize, n) ==
    LET b == SplitBytes(chunkSize) IN
    { [suffix |-> Suffix(k),
       from |-> (k - 1) * b,
       to |-> IF k * b < size THEN k * b ELSE size] : k \in 1..n }

\* file names compare as strings: digit by digit
NameBefore(f, g) ==
    \/ f.suffix[1] < g.suffix[1]
    \/ f.suffix[1] = g.suffix[1] /\ f.suffix[2] < g.suffix[2]

\* readdirSync(outputDir).filter(...).sort()
SortedChunks(files) ==
    LET before == [f \in files |->
                      Cardinality({g \in files : NameBefore(g, f)})]
    IN [k \in 1..Cardinality(files) |->
           CHOOSE f \in files : before[f] = k - 1]

InitSplit ==
    /\ opts \in {OnlyPath(p) : p \in Paths}
    /\ inputKind = "file"
    /\ inputSize \in Sizes
    /\ splitCall \in {Some([chunkSize |-> c, outputDir |-> d, files |-> {}])
                        : c \in ChunkSizes, d \in BOOLEAN}
    /\ pc = "call split"
    /\ step = 0
    /\ uploadType = None
    /\ strategy = None
    /\ cmds = <<>>
    /\ fsOps = <<>>
    /\ workDir = NoWorkDir
    /\ githubUser = None
    /\ gistCalls = 0
    /\ repoCalls = <<>>
    /\ gistError = None
    /\ gistOut = None
    /\ warnings = <<>>
    /\ failedStep = None
    /\ cli = NoCli
    /\ runs = None
    /\ result = None
    /\ error = None

splitFrame ==
    <<opts, inputKind, inputSize, step, uploadType, strategy, workDir,
      githubUser, gistCalls, repoCalls, gistError, gistOut, warnings, cli,
      runs>>

\* splitFileIntoChunks from its entry to the awaited `split`
SplitFileIntoChunksCall ==
    /\ pc = "call split"
    /\ pc' = "await split direct"
    /\ IF splitCall[1].outputDir
       THEN UNCHANGED <<splitCall, fsOps>>
       ELSE /\ splitCall' = Some([splitCall[1] EXCEPT !.outputDir = TRUE])
            /\ fsOps' = Append(fsOps, "mkdir")
    /\ cmds' = Append(cmds, Command("split",
                                    ChunkSizeMB(splitCall[1].chunkSize), None))
    /\ UNCHANGED <<failedStep, result, error>>
    /\ UNCHANGED splitFrame

\* `split` came back: the output files are listed, sorted and returned
SplitFileIntoChunksReturns ==
    /\ pc = "await split direct"
    /\ \E outcome \in CmdOutcomes :
        LET c == splitCall[1].chunkSize
            needed == Ceil(inputSize, SplitBytes(c))
            \* files written: all of them on success; on a failure none,
            \* all but the last, or the 100 the suffixes allow
            written == IF outcome = "ok" THEN {needed}
                       ELSE IF needed > MaxSplitFiles THEN {MaxSplitFiles}
                       ELSE {0, needed - 1} \cap (0..needed)
        IN
        /\ outcome = "ok" => needed <= MaxSplitFiles
        /\ \E n \in written :
            LET files == SplitFiles(inputSize, c, n) IN
            /\ splitCall' = Some([splitCall[1] EXCEPT !.files = files])
            /\ failedStep' = NoteFailure(failedStep, outcome, "split")
            /\ IF outcome = "thrown"
               THEN Throws(Err("command failed", <<>>, "split"))
               ELSE Returns([fn |-> "splitFileIntoChunks",
                             value |-> SortedChunks(files)])
    /\ UNCHANGED <<cmds, fsOps>>
    /\ UNCHANGED splitFrame

NextSplit ==
    \/ SplitFileIntoChunksCall
    \/ SplitFileIntoChunksReturns

SpecSplit == InitSplit /\ [][NextSplit]_vars

----------------------------------------------------------------------------
(* Concurrent invocations of uploadAsRepo on one machine *)

\* two invocations, as two calls in one process or one call in each of
\* two processes
Runs == {1, 2}

\* const workDir = `/tmp/${repositoryName}-${Date.now()}`
WorkDirPath(filePath, now) == <<generateRepoName(filePath), now>>

NotStarted == [pc |-> "idle", step |-> 0, dir |-> None]

InitConcurrent ==
    /\ opts \in {OnlyPath(p) : p \in Paths}
    /\ inputKind = "file"
    /\ inputSize = 1024
    /\ runs \in {Some([clock |-> 0, disk |-> {},
                       paths |-> [i \in Runs |-> IF i = 1 THEN opts.filePath[1]
                                                 ELSE p],
                       inv |-> [i \in Runs |-> NotStarted]]) : p \in Paths}
    /\ pc = "concurrent"
    /\ step = 0
    /\ uploadType = None
    /\ strategy = None
    /\ cmds = <<>>
    /\ fsOps = <<>>
    /\ workDir = NoWorkDir
    /\ githubUser = None
    /\ gistCalls = 0
    /\ repoCalls = <<>>
    /\ gistError = None
    /\ gistOut = None
    /\ warnings = <<>>
    /\ failedStep = None
    /\ cli = NoCli
    /\ splitCall = None
    /\ result = None
    /\ error = None

concurrentFrame ==
    <<opts, inputKind, inputSize, pc, step, uploadType, strategy, cmds,
      fsOps, workDir, githubUser, gistCalls, repoCalls, gistError, gistOut,
      warnings, failedStep, cli, splitCall, result, error>>

\* a millisecond passes
ClockTick ==
    /\ runs # None
    /\ runs[1].clock < MaxClock
    /\ runs' = Some([runs[1] EXCEPT !.clock = @ + 1])
    /\ UNCHANGED concurrentFrame

\* invocation i from its entry to the awaited `git init`: the directory
\* name is computed, the directory made (mkdirSync with recursive: true
\* accepts an existing one) and the file copied into it; f is how
\* copyFileSync goes
RunEnters(i) ==
    /\ runs # None
    /\ runs[1].inv[i].pc = "idle"
    /\ LET r == runs[1]
           dir == WorkDirPath(r.paths[i], r.clock)
       IN
       \E f \in {"ok", "copy throws"} :
           runs' = Some(
               IF f = "ok"
               THEN [r EXCEPT !.disk = @ \cup {dir},
                              !.inv[i] = [pc |-> "await", step |-> 1,
                                          dir |-> Some(dir)]]
               ELSE \* catch: the directory exists and is removed
                    [r EXCEPT !.disk = @ \ {dir},
                              !.inv[i] = [pc |-> "failed", step |-> 0,
                                          dir |-> Some(dir)]])
    /\ UNCHANGED concurrentFrame

\* a command of invocation i came back; it ran in the directory
\* (`cd ${workDir} && ...`) and cannot have succeeded without it
RunCmdReturns(i) ==
    /\ runs # None
    /\ runs[1].inv[i].pc = "await"
    /\ LET r == runs[1]
           me == r.inv[i]
       IN
       \E outcome \in CmdOutcomes :
           /\ outcome = "ok" => me.dir[1] \in r.disk
           /\ runs' = Some(
                  IF outcome = "thrown"
                  THEN \* catch: remove the directory if it exists
                       [r EXCEPT !.disk = @ \ {me.dir[1]},
                                 !.inv[i].pc = "failed"]
                  ELSE IF me.step < Len(RepoSteps)
                  THEN [r EXCEPT !.inv[i].step = @ + 1]
                  ELSE [r EXCEPT !.inv[i].pc = "succeeded"])
    /\ UNCHANGED concurrentFrame

NextConcurrent ==
    \/ ClockTick
    \/ \E i \in Runs : RunEnters(i)
    \/ \E i \in Runs : RunCmdReturns(i)

SpecConcurrent == InitConcurrent /\ [][NextConcurrent]_vars

----------------------------------------------------------------------------
(* The command-line program: main() around one uploadLog call *)

\* what yargs hands to main(): --public/--private and their --no- forms
\* exclude each other, and so do --only-gist and --only-repository; the
\* description defaults to ''
CliConfigs ==
    {c \in [logFile : FilePaths,
            public : {"undefined", "false", "true"},
            private : {"undefined", "false", "true"},
            onlyGist : BOOLEAN,
            onlyRepository : BOOLEAN,
            dryMode : BOOLEAN,
            description : {Some(<<>>), Some(<<"d">>)}] :
        /\ c.public = "undefined" \/ c.private = "undefined"
        /\ ~(c.onlyGist /\ c.onlyRepository)}

\* config.public === true ? true : config.private === false ? true : false
CliIsPublic(c) ==
    IF c.public = "true" THEN TRUE
    ELSE IF c.private = "false" THEN TRUE
    ELSE FALSE

\* the check of the argument parser: an only-flag sets auto to false,
\* and auto is true otherwise
CliAuto(c) == IF c.onlyGist \/ c.onlyRepository THEN "false" ELSE "true"

\* the options object main() builds
CliOptions(c) ==
    [filePath |-> c.logFile,
     isPublic |-> IF CliIsPublic(c) THEN "true" ELSE "false",
     auto |-> CliAuto(c),
     onlyGist |-> c.onlyGist,
     onlyRepository |-> c.onlyRepository,
     dryMode |-> c.dryMode,
     description |-> c.description]

\* mutant: the error is printed but the process exits with status 0
CliReport_ExitZero(r, e) ==
    IF e # None
    THEN [out |-> <<"error">>, exit |-> 0]
    ELSE [out |-> <<IF r[1].dryMode THEN "would be created" ELSE "created">>
                  \o (IF r[1].url # <<>> /\ ~r[1].dryMode THEN <<"url">>
                      ELSE <<>>),
          exit |-> 0]

\* what main() prints and the status it exits with once uploadLog has
\* returned r or thrown e
CliReport(r, e) ==
    IF e # None
    THEN [out |-> <<"error">>, exit |-> 1]
    ELSE [out |-> <<IF r[1].dryMode THEN "would be created" ELSE "created">>
                  \o (IF r[1].url # <<>> /\ ~r[1].dryMode THEN <<"url">>
                      ELSE <<>>),
          exit |-> 0]

\* the process has started; opts holds the options main() is to pass
InitCli ==
    /\ \E c \in CliConfigs :
        /\ opts = CliOptions(c)
        /\ cli = [active |-> TRUE, exit |-> None, out |-> <<>>]
    /\ splitCall = None
    /\ runs = None
    /\ inputKind \in IF Truthy(opts.filePath) THEN {"missing", "dir", "file"}
                     ELSE {"missing"}
    /\ inputSize \in IF inputKind = "file" THEN Sizes ELSE {0}
    /\ pc = "cli main"
    /\ step = 0
    /\ uploadType = None
    /\ strategy = None
    /\ cmds = <<>>
    /\ fsOps = <<>>
    /\ workDir = NoWorkDir
    /\ githubUser = None
    /\ gistCalls = 0
    /\ repoCalls = <<>>
    /\ gistError = None
    /\ gistOut = None
    /\ warnings = <<>>
    /\ failedStep = None
    /\ result = None
    /\ error = None

cliFrame ==
    <<opts, inputKind, inputSize, step, uploadType, strategy, cmds, fsOps,
      workDir, githubUser, gistCalls, repoCalls, gistError, gistOut,
      warnings, failedStep, splitCall, runs, result, error>>

\* main() from its entry to `await uploadLog(options)`
CliMain ==
    /\ pc = "cli main"
    /\ IF ~Truthy(opts.filePath)
       THEN /\ cli' = [cli EXCEPT !.out = Append(@, "usage"), !.exit = Some(1)]
            /\ pc' = "exited"
       ELSE /\ cli' = [cli EXCEPT !.out = Append(@, "uploading")]
            /\ pc' = "call"
    /\ UNCHANGED cliFrame

\* uploadLog settled: main() reports and exits
CliFinish ==
    /\ pc = "done"
    /\ cli.active
    /\ LET rep == CliReport(result, error) IN
       cli' = [cli EXCEPT !.out = @ \o rep.out, !.exit = Some(rep.exit)]
    /\ pc' = "exited"
    /\ UNCHANGED cliFrame

NextCli ==
    \/ CliMain
    \/ UploadLogCall
    \/ GistReturns
    \/ SplitReturns
    \/ RepoCmdReturns
    \/ CliFinish

SpecCli == InitCli /\ [][NextCli]_vars

----------------------------------------------------------------------------
(* uploadLog called *)

Next ==
    \/ UploadLogCall
    \/ GistReturns
    \/ SplitReturns
    \/ RepoCmdReturns

Spec == Init /\ [][Next]_vars

----------------------------------------------------------------------------
(* uploadLog called, every awaited command eventually returning *)

SpecLive == Init /\ [][Next]_vars /\ WF_vars(Next)

----------------------------------------------------------------------------
(* Properties *)

MiB == 1024 * 1024

\* the commands uploadAsRepo issues
RepoCommandNames == {RepoSteps[i] : i \in 1..Len(RepoSteps)} \cup {"split"}

\* an error raised inside uploadAsRepo
IsRepoError(e) ==
    \/ e.msg = "fs error"
    \/ e.msg = "command failed" /\ e.cmd \in RepoCommandNames

\* no scratch directory, no file-system write, no external command
NothingDone ==
    /\ cmds = <<>>
    /\ fsOps = <<>>
    /\ workDir = NoWorkDir
    /\ gistCalls = 0
    /\ repoCalls = <<>>

\* u contains "://", as every absolute URL the program builds does
HasScheme(u) ==
    \E i \in 1..(Len(u) - 2) : u[i] = ":" /\ u[i + 1] = "/" /\ u[i + 2] = "/"

\* C1: a direct uploadAsGist call whose command resolved returns a result
\* only if the trimmed stdout starts with 'https://gist.github.com/' and is
\* strictly longer than it; for every other stdout it throws 'Failed to
\* create gist', whatever the exit status.
C1_GistSuccessNeedsValidUrl ==
    (pc = "done" /\ gistOut # None) =>
        LET u == Trim(gistOut[1].stdout) IN
        IF StartsWith(u, GistUrlPrefix) /\ Len(u) > Len(GistUrlPrefix)
        THEN /\ error = None
             /\ result # None
             /\ result[1].type = "gist"
             /\ result[1].url = u
        ELSE /\ result = None
             /\ error # None
             /\ error[1].msg = "Failed to create gist"

\* C1 witness: exit status 0, stdout is the bare prefix and a newline, and
\* the call failed
C1_Witness ==
    /\ pc = "done"
    /\ gistOut # None
    /\ gistOut[1].exitCode = 0
    /\ gistOut[1].stdout = GistUrlPrefix \o <<"\n">>
    /\ error # None

\* C2: once uploadAsGist failed inside uploadLog without onlyGist, exactly
\* one uploadAsRepo call has been made, with uploadLog's own options, and
\* uploadLog ends with that call's result or that call's error.
C2_GistFailureFallsBackOnce ==
    (gistError # None /\ uploadType = Some("gist") /\ ~opts.onlyGist) =>
        /\ repoCalls = <<opts>>
        /\ Len(warnings) = 1
        /\ pc = "done" =>
            \/ result # None /\ result[1].type = "repo" /\ error = None
            \/ error # None /\ IsRepoError(error[1]) /\ result = None

\* C2 witness: the gist failed, the fallback repository upload succeeded
C2_Witness ==
    /\ gistError # None
    /\ ~opts.onlyGist
    /\ pc = "done"
    /\ result # None
    /\ result[1].type = "repo"

\* C3: with onlyGist a failure of uploadAsGist ends uploadLog with that
\* same error; uploadAsRepo is not called, no scratch directory exists, no
\* file-system write happened and only `gh gist create` was issued.
C3_OnlyGistNeverFallsBack ==
    (gistError # None /\ opts.onlyGist) =>
        /\ pc = "done"
        /\ error = gistError
        /\ result = None
        /\ repoCalls = <<>>
        /\ fsOps = <<>>
        /\ workDir = NoWorkDir
        /\ \A i \in 1..Len(cmds) : cmds[i].cmd = "gh gist create"

\* C3 witness: onlyGist, the gist failed, uploadLog threw
C3_Witness ==
    /\ opts.onlyGist
    /\ gistError # None
    /\ gistError[1].msg = "Failed to create gist"
    /\ error = gistError

C5_NeedsSplitIffAbove100MiB ==
    strategy # None =>
        /\ strategy[1].needsSplit <=> inputSize > 100 * MiB
        /\ strategy[1].type = "gist" => ~strategy[1].needsSplit

\* C5 witness: exactly 100 MiB was classified repo without split
C5_Witness ==
    /\ strategy # None
    /\ inputSize = 100 * MiB
    /\ strategy[1].type = "repo"
    /\ ~strategy[1].needsSplit

\* C6: a repo decision has chunkSize 100 MiB and numChunks the least
\* k >= 1 with k * 100 MiB >= s (that is, ceil(s / 100 MiB)).
C6_NumChunksIsCeiling ==
    (strategy # None /\ strategy[1].type = "repo") =>
        /\ strategy[1].chunkSize = Some(100 * MiB)
        /\ strategy[1].numChunks # None
        /\ LET k == strategy[1].numChunks[1] IN
            /\ k >= 1
            /\ k * (100 * MiB) >= inputSize
            /\ (k - 1) * (100 * MiB) < inputSize
            /\ inputSize = 100 * MiB + 1 => k = 2
            /\ inputSize = 100 * MiB => k = 1

\* C6 witness: 100 MiB + 1 byte gives two chunks
C6_Witness ==
    /\ strategy # None
    /\ inputSize = 100 * MiB + 1
    /\ strategy[1].numChunks = Some(2)

\* C7: with at most one of onlyGist / onlyRepository set, the resolved type
\* is gist under onlyGist, repo under onlyRepository, and the classifier's
\* type otherwise.
C7_OverridesForceType ==
    (uploadType # None /\ ~(opts.onlyGist /\ opts.onlyRepository)) =>
        /\ opts.onlyGist => uploadType = Some("gist")
        /\ opts.onlyRepository => uploadType = Some("repo")
        /\ (~opts.onlyGist /\ ~opts.onlyRepository) =>
               uploadType = Some(strategy[1].type)

\* C7 witness: onlyRepository forced repo for a file the classifier
\* calls gist
C7_Witness ==
    /\ uploadType = Some("repo")
    /\ opts.onlyRepository
    /\ ~opts.onlyGist
    /\ strategy[1].type = "gist"

\* C8: in dry mode nothing is ever done: no external command, no
\* file-system write, no uploader entered; and past validation the call
\* has returned a result.
C8_DryRunDoesNothing ==
    opts.dryMode =>
        /\ NothingDone
        /\ (pc # "call" /\ inputKind = "file") => (pc = "done" /\ result # None)

\* C8 witness: a dry run on an existing file returned
C8_Witness ==
    /\ opts.dryMode
    /\ inputKind = "file"
    /\ pc = "done"
    /\ result # None
    /\ NothingDone

\* C9: the dry-run result has dryMode true, a url without a scheme, the
\* resolved type, the requested visibility, fileName exactly for gist and
\* repositoryName exactly for repo.
C9_DryRunResultShape ==
    (opts.dryMode /\ result # None) =>
        LET r == result[1]
            t == IF opts.onlyGist THEN "gist"
                 ELSE IF opts.onlyRepository THEN "repo"
                 ELSE IF inputSize <= 25 * MiB THEN "gist" ELSE "repo"
        IN
        /\ r.dryMode
        /\ ~HasScheme(r.url)
        /\ r.type = t
        /\ uploadType = Some(t)
        /\ r.isPublic = (opts.isPublic = "true")
        /\ r.fileName = IF t = "gist"
                        THEN Some(generateGistFileName(opts.filePath[1]))
                        ELSE None
        /\ r.repositoryName = IF t = "repo"
                              THEN Some(generateRepoName(opts.filePath[1]))
                              ELSE None

\* C9 witness: a public dry run forced to repo on a small file
C9_Witness ==
    /\ opts.dryMode
    /\ result # None
    /\ opts.onlyRepository
    /\ ~opts.onlyGist
    /\ opts.isPublic = "true"
    /\ inputSize <= 25 * MiB
    /\ result[1].repositoryName # None

\* C10: an absent filePath ends uploadLog with 'filePath is required', a
\* path that is not a regular file with 'File does not exist'; in both
\* cases nothing was classified, returned, issued or written, dry run or
\* not.
C10_ValidationComesFirst ==
    (pc # "call" /\ (~Truthy(opts.filePath) \/ inputKind # "file")) =>
        /\ pc = "done"
        /\ error # None
        /\ error[1].msg = IF ~Truthy(opts.filePath)
                          THEN "filePath is required"
                          ELSE "File does not exist"
        /\ result = None
        /\ strategy = None
        /\ uploadType = None
        /\ NothingDone

\* C10 witness: a dry run on a missing file failed
C10_Witness ==
    /\ opts.dryMode
    /\ Truthy(opts.filePath)
    /\ inputKind = "missing"
    /\ pc = "done"
    /\ error # None
    /\ error[1].msg = "File does not exist"

\* the decision the classifier is to give for a regular file of size s
ExpectedDecision(s) ==
    IF s <= 25 * MiB
    THEN [threw |-> FALSE, type |-> "gist", fileSize |-> s,
          needsSplit |-> FALSE, numChunks |-> None, chunkSize |-> None]
    ELSE [threw |-> FALSE, type |-> "repo", fileSize |-> s,
          needsSplit |-> s > 100 * MiB,
          numChunks |-> Some(CHOOSE k \in 1..(MaxChunks + 2) :
                                 k * 100 * MiB >= s /\ (k - 1) * 100 * MiB < s),
          chunkSize |-> Some(100 * MiB)]

\* C11: a direct determineUploadStrategy call throws 'File does not exist'
\* iff the path is not an existing regular file (missing or a directory);
\* it issues no command and writes nothing either way; and for a regular
\* file the decision is a function of the size alone, whatever the path.
C11_StrategyThrowsIffNotRegularFile ==
    pc = "done" =>
        /\ cmds = <<>> /\ fsOps = <<>> /\ workDir = NoWorkDir
        /\ IF inputKind = "file"
           THEN error = None /\ strategy = Some(ExpectedDecision(inputSize))
           ELSE /\ strategy = None
                /\ error # None
                /\ error[1].msg = "File does not exist"

\* C11 witness: a directory was refused
C11_Witness ==
    /\ pc = "done"
    /\ inputKind = "dir"
    /\ error # None
    /\ error[1].msg = "File does not exist"

\* C12: once uploadAsRepo is over, its scratch directory exists iff the
\* call succeeded: a failure at any step (mkdir, copy, split, a git or gh
\* command) leaves the directory removed and no result, a success leaves
\* it in place and returns its path as workDir.
C12_ScratchDirIffSuccess ==
    (pc = "done" /\ repoCalls # <<>>) =>
        /\ workDir.exists <=> (result # None)
        /\ result # None => result[1].workDir
        /\ failedStep # None => (~workDir.exists /\ result = None)

\* C13: visibility is private unless isPublic is true: `gh gist create`
\* carries --public only then, `gh repo create` carries --private
\* otherwise, uploadAsRepo receives the visibility uploadLog was given
\* (fallback included), and the result's isPublic is the requested value.
C13_PrivateUnlessPublicRequested ==
    LET wanted == opts.isPublic = "true" IN
    /\ \A i \in 1..Len(cmds) :
        /\ cmds[i].flag = "--public" => wanted
        /\ cmds[i].cmd = "gh gist create" =>
               cmds[i].flag = IF wanted THEN "--public" ELSE ""
        /\ cmds[i].cmd = "gh repo create" =>
               cmds[i].flag = IF wanted THEN "--public" ELSE "--private"
    /\ \A i \in 1..Len(repoCalls) : repoCalls[i].isPublic = opts.isPublic
    /\ result # None => result[1].isPublic = wanted

\* C13 witness: isPublic absent, the gist failed, and the fallback created
\* a private repository
C13_Witness ==
    /\ opts.isPublic = "undefined"
    /\ gistCalls = 1
    /\ gistError # None
    /\ pc = "done"
    /\ result # None
    /\ result[1].type = "repo"
    /\ ~result[1].isPublic
    /\ cmds[Len(cmds)] = Command("gh repo create", "--private", None)

\* the lines with which the command-line program reports a success
SuccessLines == {"created", "would be created", "url"}

\* C14: the command-line program never prints a success line and never
\* exits with status 0 when uploadLog threw: it then prints the error and
\* exits with status 1; status 0 and the success lines come only after
\* uploadLog returned a result.
C14_CliNeverReportsFailureAsSuccess ==
    cli.active =>
        LET printed == {cli.out[i] : i \in 1..Len(cli.out)} IN
        /\ error # None =>
               /\ printed \cap SuccessLines = {}
               /\ cli.exit \in {None, Some(1)}
               /\ pc = "exited" =>
                      cli.exit = Some(1) /\ cli.out[Len(cli.out)] = "error"
        /\ (cli.exit = Some(0) \/ printed \cap SuccessLines # {}) =>
               result # None /\ error = None
        /\ pc = "exited" => cli.exit # None

\* C14 witness: the gist was refused, the fallback repository upload threw,
\* and the process exited with status 1 after the error message
C14_Witness ==
    /\ cli.active
    /\ pc = "exited"
    /\ gistError # None
    /\ error # None
    /\ IsRepoError(error[1])
    /\ cli.exit = Some(1)
    /\ cli.out = <<"uploading", "error">>

\* the values the auto option may take
AutoValues == {"undefined", "false", "true"}

\* C15: auto is informational only.  Whatever value auto is given in
\* place of the one the call has, with the same file and the same answers
\* of the environment, the call validates, resolves its type, decides on
\* the dry run and the fallback, issues its commands and builds its result
\* exactly as this call did.
C15_AutoIsInformationalOnly ==
    \A a \in AutoValues :
        LET o2 == [opts EXCEPT !.auto = a] IN
        /\ Validate(o2, inputKind) = Validate(opts, inputKind)
        /\ IsDryRun(o2) = IsDryRun(opts)
        /\ FallsBackToRepo(o2.onlyGist) = FallsBackToRepo(opts.onlyGist)
        /\ (pc # "call" /\ Validate(opts, inputKind) # None) =>
               error = Some(Err(Validate(o2, inputKind)[1], <<>>, ""))
        /\ uploadType # None =>
               uploadType = Some(ResolveUploadType(strategy[1].type,
                                                   o2.onlyGist,
                                                   o2.onlyRepository))
        /\ \A i \in 1..Len(cmds) :
               cmds[i] = IF cmds[i].cmd = "gh gist create" THEN GistCommand(o2)
                         ELSE IF cmds[i].cmd = "split" THEN SplitCommand
                         ELSE RepoCommand(o2, CHOOSE k \in 1..Len(RepoSteps) :
                                                   RepoSteps[k] = cmds[i].cmd)
        /\ result # None =>
               result[1] =
                   IF result[1].dryMode
                   THEN DryRunResult(o2, uploadType[1])
                   ELSE IF result[1].type = "repo"
                   THEN RepoResult(o2, githubUser[1])
                   ELSE GistOutcome(o2, [stdout |-> result[1].url,
                                         stderr |-> <<>>,
                                         exitCode |-> 0]).value

\* C15 witness: auto is false, no override is given, and the call still
\* classified a large file by its size and created a repository
C15_Witness ==
    /\ opts.auto = "false"
    /\ ~opts.onlyGist
    /\ ~opts.onlyRepository
    /\ ~opts.dryMode
    /\ pc = "done"
    /\ gistCalls = 0
    /\ result # None
    /\ result[1].type = "repo"

\* the number of "/" characters x starts with
LeadingSlashes(x) ==
    CHOOSE k \in 0..Len(x) :
        /\ \A i \in 1..k : x[i] = "/"
        /\ k = Len(x) \/ x[k + 1] # "/"

\* C16: normalizeFileName(x) is x without its leading "/" characters and
\* with every other "/" turned into "-"; it holds no "/", and normalizing
\* it again gives it back.
C16_NormalizeStripsAndReplaces ==
    (pc = "done" /\ result # None) =>
        LET r == result[1]
            k == LeadingSlashes(r.arg)
        IN
        /\ r.fn \in {"normalizeFileName", "normalizeFileName again"} =>
               /\ Len(r.value) = Len(r.arg) - k
               /\ \A i \in 1..Len(r.value) :
                      /\ r.value[i] = IF r.arg[k + i] = "/" THEN "-"
                                      ELSE r.arg[k + i]
                      /\ r.value[i] # "/"
        /\ r.fn = "normalizeFileName again" => r.value = r.arg

\* C16 witness: a path with two leading slashes and an inner one was
\* normalized twice
C16_Witness ==
    /\ pc = "done"
    /\ result # None
    /\ result[1].fn = "normalizeFileName again"
    /\ Len(opts.filePath[1]) >= 4
    /\ LeadingSlashes(opts.filePath[1]) = 2
    /\ \E i \in 4..Len(opts.filePath[1]) : opts.filePath[1][i] = "/"
    /\ result[1].arg # opts.filePath[1]

\* C17: generateRepoName(path) is 'log-' followed by the normalized name
\* without one trailing '.log', any other ending kept as it is;
\* generateGistFileName(path) is the normalized name.
C17_RepoNameAndGistFileName ==
    (pc = "done" /\ result # None) =>
        LET r == result[1]
            n == normalizeFileName(r.arg)
        IN
        /\ r.fn = "generateRepoName" =>
               /\ Len(r.value) >= 4
               /\ SubSeq(r.value, 1, 4) = <<"l", "o", "g", "-">>
               /\ SubSeq(r.value, 5, Len(r.value)) =
                      IF Len(n) >= 4 /\ SubSeq(n, Len(n) - 3, Len(n))
                                        = <<".", "l", "o", "g">>
                      THEN SubSeq(n, 1, Len(n) - 4)
                      ELSE n
        /\ r.fn = "generateGistFileName" => r.value = n

\* C17 witness: a path that ends with '.txt' kept its extension
C17_Witness ==
    /\ pc = "done"
    /\ result # None
    /\ result[1].fn = "generateRepoName"
    /\ opts.filePath[1] = <<"/", "a", "/", ".", "t", "x", "t">>
    /\ result[1].value = <<"l", "o", "g", "-", "a", "-", ".", "t", "x", "t">>

\* a call that leaves the choice of the uploader to the size of the file
AutomaticUpload ==
    /\ pc # "call"
    /\ Truthy(opts.filePath)
    /\ inputKind = "file"
    /\ ~opts.onlyGist
    /\ ~opts.onlyRepository
    /\ ~opts.dryMode

C19_RepoDescriptionApplied ==
    \A i \in 1..Len(cmds) :
        (cmds[i].cmd = "gh repo create" /\ Truthy(opts.description)) =>
            cmds[i].desc = Some(opts.description[1])

\* the commands of uploadAsRepo issued so far, in order
RepoCmdsIssued == SelectSeq(cmds, LAMBDA c : c.cmd \in RepoCommandNames)

\* the order in which uploadAsRepo is to issue its commands for this file
RepoCmdOrder ==
    (IF inputSize > 100 * MiB THEN <<"split">> ELSE <<>>)
    \o <<"git init", "git branch -m main", "git add .", "git commit",
         "gh api user", "gh repo create">>

\* C20: uploadAsRepo creates the directory, copies the file, then issues
\* split (large files only), git init, branch, add, commit, the identity
\* lookup and the repository creation in this order; a step that failed
\* is the last one executed, so that `gh repo create` is issued only
\* after every earlier step completed.
C20_StepsInOrderAndFailureStops ==
    LET issued == RepoCmdsIssued IN
    /\ Len(issued) <= Len(RepoCmdOrder)
    /\ \A i \in 1..Len(issued) : issued[i].cmd = RepoCmdOrder[i]
    /\ issued # <<>> =>
           /\ Len(fsOps) >= 2
           /\ SubSeq(fsOps, 1, 2) = <<"mkdir", "copy">>
    /\ (\E i \in 1..Len(fsOps) : fsOps[i] = "unlink") =>
           /\ inputSize > 100 * MiB
           /\ Len(issued) >= 2
    /\ failedStep # None => issued[Len(issued)].cmd = failedStep[1]
    /\ (\E i \in 1..Len(issued) : issued[i].cmd = "gh repo create") =>
           failedStep \in {None, Some("gh repo create")}

\* C21: while `git add .` or `git commit` is in flight the scratch
\* directory holds the single copy and no part if the file has at most
\* 100 MiB, and parts without the unchunked copy if it is larger; the
\* full copy and parts are never there together.
C21_CommitsCopyOrPartsNeverBoth ==
    (pc = "await repo" /\ step \in {3, 4}) =>
        /\ cmds[Len(cmds)].cmd \in {"git add .", "git commit"}
        /\ workDir.exists
        /\ ~(workDir.copy /\ workDir.parts > 0)
        /\ IF inputSize <= 100 * MiB
           THEN workDir.copy /\ workDir.parts = 0
           ELSE /\ ~workDir.copy
                /\ fsOps[Len(fsOps)] = "unlink"
                /\ failedStep = None =>
                       workDir.parts * 100 * MiB >= inputSize

\* C21 witness: the commit of a file of 100 MiB + 1 byte is in flight, the
\* directory holds two parts and no full copy
C21_Witness ==
    /\ pc = "await repo"
    /\ step = 4
    /\ inputSize = 100 * MiB + 1
    /\ workDir = [exists |-> TRUE, copy |-> FALSE, parts |-> 2]

\* C22: one uploadLog call invokes uploadAsGist at most once and
\* uploadAsRepo at most once, issues no command twice, tries the gist
\* only before the repository, and ends at the first repository error:
\* the command that threw is the last one issued.
C22_NoRetries ==
    /\ gistCalls <= 1
    /\ Len(repoCalls) <= 1
    /\ \A i, j \in 1..Len(cmds) : i # j => cmds[i].cmd # cmds[j].cmd
    /\ \A i \in 1..Len(cmds) : cmds[i].cmd = "gh gist create" => i = 1
    /\ (repoCalls # <<>> /\ gistCalls = 1) => gistError # None
    /\ (error # None /\ IsRepoError(error[1])) =>
           /\ pc = "done"
           /\ result = None
           /\ error[1].msg = "command failed" =>
                  cmds[Len(cmds)].cmd = error[1].cmd

\* C22 witness: after the fallback, `git commit` threw and the call ended
\* there, with one gist command and one run of the repository commands
C22_Witness ==
    /\ pc = "done"
    /\ gistCalls = 1
    /\ Len(repoCalls) = 1
    /\ error # None
    /\ error[1].cmd = "git commit"
    /\ Len(cmds) = 5
    /\ cmds[1].cmd = "gh gist create"

C24_GistErrorCarriesDiagnostic ==
    (pc = "done" /\ gistOut # None /\ error # None) =>
        LET stderr == gistOut[1].stderr IN
        /\ error[1].msg = "Failed to create gist"
        /\ error[1].detail =
               IF \A i \in 1..Len(stderr) : stderr[i] \in {" ", "\n", "\t", "\r"}
               THEN <<"U", "n", "k", "n", "o", "w", "n", " ",
                      "e", "r", "r", "o", "r">>
               ELSE Trim(stderr)

\* C26: splitFileIntoChunks leaves the output directory in place and
\* returns parts that, in the returned order, hold the bytes of the input
\* from the first to the last without gap or overlap, each part holding
\* at most chunkSize bytes; a failure of `split` reaches the caller as an
\* error.
C26_PartsReproduceInput ==
    (pc = "done" /\ splitCall # None) =>
        /\ splitCall[1].outputDir
        /\ failedStep # None => (error # None /\ result = None)
        /\ result # None =>
               LET parts == result[1].value IN
               /\ \A i \in 1..Len(parts) :
                      /\ parts[i].from = IF i = 1 THEN 0 ELSE parts[i - 1].to
                      /\ parts[i].to > parts[i].from
                      /\ parts[i].to - parts[i].from <= splitCall[1].chunkSize
               /\ inputSize = IF parts = <<>> THEN 0 ELSE parts[Len(parts)].to

\* C27: uploadAsRepo splits exactly when the classifier reports
\* needsSplit for the size, and the parts it then commits are as many as
\* the numChunks of the classifier, ceil(fileSize / 100 MiB).
C27_SplitAgreesWithClassifier ==
    (strategy # None /\ \E i \in 1..Len(cmds) : cmds[i].cmd = "git init") =>
        LET split == \E i \in 1..Len(cmds) : cmds[i].cmd = "split" IN
        /\ split <=> strategy[1].needsSplit
        /\ (split /\ workDir.exists /\ step >= 4) =>
               /\ strategy[1].numChunks # None
               /\ workDir.parts = strategy[1].numChunks[1]
               /\ (workDir.parts - 1) * 100 * MiB < inputSize
               /\ workDir.parts * 100 * MiB >= inputSize

\* C28: a result that is not a dry run names the backend that made the
\* URL: 'gist' comes with a gist URL and a fileName and no repository
\* upload, 'repo' with a repositoryName and only after `gh repo create`
\* completed; after a fallback the type is 'repo' although the resolved
\* type was 'gist'.
C28_ResultTypeNamesBackend ==
    (result # None /\ ~result[1].dryMode) =>
        LET r == result[1] IN
        /\ r.type \in {"gist", "repo"}
        /\ r.type = "gist" =>
               /\ StartsWith(r.url, GistUrlPrefix)
               /\ Len(r.url) > Len(GistUrlPrefix)
               /\ r.fileName # None
               /\ repoCalls = <<>>
               /\ cmds[Len(cmds)].cmd = "gh gist create"
        /\ r.type = "repo" =>
               /\ StartsWith(r.url, RepoUrlPrefix)
               /\ r.repositoryName # None
               /\ cmds[Len(cmds)].cmd = "gh repo create"
               /\ failedStep # Some("gh repo create")
        /\ gistError # None => (r.type = "repo" /\ uploadType = Some("gist"))

\* how many of the commands issued so far have a name in names
Issued(names) == Cardinality({i \in 1..Len(cmds) : cmds[i].cmd \in names})

\* C29: if every awaited command eventually returns, the call eventually
\* ends with a result or with an error, and at no time has it issued
\* more than one gist creation, one split, four git commands, one
\* identity lookup and one repository creation.
C29_TerminatesWithBoundedCommands ==
    /\ <>(pc = "done" /\ (result # None) # (error # None))
    /\ [](/\ Issued({"gh gist create"}) <= 1
          /\ Issued({"split"}) <= 1
          /\ Issued({"gh api user"}) <= 1
          /\ Issued({"gh repo create"}) <= 1
          /\ Len(cmds) - Issued({"gh gist create", "split", "gh api user",
                                 "gh repo create"}) <= 4
          /\ Len(cmds) <= 8)

\* C29 witness: the longest run ended: a split, four git commands, the
\* identity lookup and the repository creation were issued
C29_Witness ==
    /\ pc = "done"
    /\ result # None
    /\ Len(cmds) = 7
    /\ Issued({"split"}) = 1
    /\ Issued({"gh repo create"}) = 1

\* C25: any two invocations of uploadAsRepo, concurrent ones for the same
\* file path included, compute distinct scratch directories.
C25_DistinctScratchDirs ==
    runs # None =>
        \A i, j \in Runs :
            (i # j /\ runs[1].inv[i].dir # None /\ runs[1].inv[j].dir # None)
                => runs[1].inv[i].dir # runs[1].inv[j].dir

\* C30: the cleanup of one invocation never removes the directory of
\* another: the directory of an invocation that is in progress or has
\* succeeded is on disk.
C30_CleanupRemovesOnlyOwnDir ==
    runs # None =>
        \A i \in Runs :
            runs[1].inv[i].pc \in {"await", "succeeded"} =>
                runs[1].inv[i].dir[1] \in runs[1].disk

====
